---- MODULE Spec2Model ----
(***************************************************************************)
(* Position accounting of the wallet document: the /buy and /sell routes   *)
(* of server/routes/wallet.js and the methods of server/models/Wallet.js.  *)
(*                                                                         *)
(* JavaScript numbers are modelled as exact rationals <<n, d>> in lowest   *)
(* terms with d > 0; IEEE-754 rounding is not modelled.                    *)
(* Requests are handled one at a time (each handler is one atomic step).   *)
(***************************************************************************)
EXTENDS Integers, Sequences, FiniteSets, TLC

VARIABLES
    currencies,    \* wallet.currencies: the persisted array of positions
    transactions,  \* the persisted Transaction documents, in creation order
    res,           \* the HTTP response of the last request handled
    portfolioHistory,  \* wallet.portfolioHistory: the persisted snapshots
    clock,         \* the server's date, in days
    sells,         \* the /sell requests in flight: where each one is in its
                   \* handler, and the wallet document it has read
    version,       \* wallet.__v as the requests in flight find it
    client,        \* the browser: the auth and wallet contexts and the
                   \* requests they are waiting for
    accounts       \* the users and wallets collections, and the /register
                   \* requests in flight

vars == <<currencies, transactions, res, portfolioHistory, clock, sells, version,
          client, accounts>>

----------------------------------------------------------------------------
(* Bounds *)

MaxTx == 3       \* accepted orders per behaviour
MaxClock == 550  \* the last day a behaviour reaches
MaxSnapshots == 3  \* snapshots stored when recordPortfolioSnapshot is called

----------------------------------------------------------------------------
(* Numbers *)

Abs(x) == IF x < 0 THEN -x ELSE x

RECURSIVE Gcd(_, _)
Gcd(a, b) == IF b = 0 THEN a ELSE Gcd(b, a % b)

\* the rational n/d in lowest terms, d > 0
Rat(n, d) ==
    LET g == Gcd(Abs(n), Abs(d))
        s == IF d < 0 THEN -1 ELSE 1
    IN  <<(s * n) \div g, (s * d) \div g>>

Zero == <<0, 1>>
Hundred == <<100, 1>>
\* NaN: 0 / 0, and the number read from a field that is missing or not numeric
NaN == <<0, 0>>

Add(x, y) == Rat(x[1] * y[2] + y[1] * x[2], x[2] * y[2])
Sub(x, y) == Rat(x[1] * y[2] - y[1] * x[2], x[2] * y[2])
Mul(x, y) == Rat(x[1] * y[1], x[2] * y[2])
\* only used with y # 0
Div(x, y) == Rat(x[1] * y[2], x[2] * y[1])
Lt(x, y)  == x[1] * y[2] < y[1] * x[2]
Le(x, y)  == x[1] * y[2] <= y[1] * x[2]

----------------------------------------------------------------------------
(* Request inputs *)

OrderAmounts == {Rat(1, 1), Rat(2, 1)}
OrderPrices == {Rat(1, 1), Rat(3, 1)}

\* a well-formed /buy body with an upper-case symbol, and the bodies that differ
\* from it in one field
BuyBody == [symbol |-> "BTC", name |-> "Coin", amount |-> Rat(1, 1),
            price |-> Rat(1, 1), fiatAmount |-> Rat(2, 1)]
\* the /buy bodies: every amount and price for a symbol typed in lower case,
\* one order of a second symbol, and the bodies with one field out of range,
\* below its minimum, negative or missing (a missing string reaches the
\* validators as "", a missing number as NaN)
BuyBodies ==
    [symbol : {"btc"}, name : {"Coin"}, amount : OrderAmounts,
     price : OrderPrices, fiatAmount : {Rat(2, 1)}]
    \cup {BuyBody, [BuyBody EXCEPT !.symbol = "eth", !.price = Rat(3, 1)],
          [BuyBody EXCEPT !.symbol = "  "], [BuyBody EXCEPT !.symbol = "X"],
          [BuyBody EXCEPT !.name = ""], [BuyBody EXCEPT !.amount = Zero],
          [BuyBody EXCEPT !.price = Zero], [BuyBody EXCEPT !.fiatAmount = Zero],
          [BuyBody EXCEPT !.amount = Rat(1, 10000000)],
          [BuyBody EXCEPT !.price = Rat(1, 200)],
          [BuyBody EXCEPT !.amount = Rat(-1, 1)], [BuyBody EXCEPT !.price = Rat(-1, 1)],
          [BuyBody EXCEPT !.symbol = ""], [BuyBody EXCEPT !.amount = NaN],
          [BuyBody EXCEPT !.price = NaN], [BuyBody EXCEPT !.fiatAmount = NaN]}

\* a well-formed /sell body with an upper-case symbol, and the bodies that differ
\* from it in one field
SellBody == [symbol |-> "BTC", amount |-> Rat(1, 1), price |-> Rat(1, 1)]
\* the /sell bodies: every amount and price for the first symbol, two orders of
\* the second, a symbol never bought, and the bodies with one field out of
\* range, negative or missing
SellBodies ==
    [symbol : {"btc"}, amount : OrderAmounts, price : OrderPrices]
    \cup {SellBody, [SellBody EXCEPT !.symbol = "eth"],
          [SellBody EXCEPT !.symbol = "eth", !.amount = Rat(2, 1)],
          [SellBody EXCEPT !.symbol = "X"], [SellBody EXCEPT !.symbol = "  "],
          [SellBody EXCEPT !.amount = Zero], [SellBody EXCEPT !.price = Zero],
          [SellBody EXCEPT !.amount = Rat(-1, 1)], [SellBody EXCEPT !.price = Rat(-1, 1)],
          [SellBody EXCEPT !.symbol = ""], [SellBody EXCEPT !.amount = NaN],
          [SellBody EXCEPT !.price = NaN]}

\* symbols a price feed may quote, and the prices it may deliver
FeedSymbols == {"BTC", "ETH"}
FeedPrices == {Zero, Rat(2, 1)}
\* priceData objects: a price for some of the quoted symbols
PriceDatas == UNION {[S -> FeedPrices] : S \in SUBSET FeedSymbols}

----------------------------------------------------------------------------
(* Strings *)

\* String.prototype.trim / express-validator trim()
Trim(s) == IF s = "  " THEN "" ELSE s

\* a symbol stored as it was typed
ToUpperCaseAsTyped(s) == s

\* String.prototype.toUpperCase
ToUpperCase(s) ==
    CASE s = "btc" -> "BTC"
      [] s = "eth" -> "ETH"
      [] OTHER -> s

\* String.prototype.length
StrLen(s) ==
    CASE s = "" -> 0
      [] s = "X" -> 1
      [] s = "  " -> 2
      [] OTHER -> 3

----------------------------------------------------------------------------
(* Validators of the request bodies *)

MinAmount == Rat(1, 1000000)
\* a price validator with min: 0
MinPriceZero == Zero

MinPrice == Rat(1, 100)
MinSymbolLen == 2
MaxSymbolLen == 10

\* isFloat({ min }) on a numeric field
\* an isFloat without its min option
IsFloatAny(x, min) == x # NaN

IsFloatMin(x, min) == x # NaN /\ Le(min, x)

BuyValid(body) ==
    /\ Trim(body.symbol) # ""
    /\ StrLen(Trim(body.symbol)) >= MinSymbolLen
    /\ StrLen(Trim(body.symbol)) <= MaxSymbolLen
    /\ Trim(body.name) # ""
    /\ IsFloatMin(body.amount, MinAmount)
    /\ IsFloatMin(body.price, MinPrice)
    /\ IsFloatMin(body.fiatAmount, MinPrice)

SellValid(body) ==
    /\ Trim(body.symbol) # ""
    /\ IsFloatMin(body.amount, MinAmount)
    /\ IsFloatMin(body.price, MinPrice)

----------------------------------------------------------------------------
(* Responses *)

ValidationFailed == [status |-> 400, error |-> "Validation failed"]
CurrencyNotFound == [status |-> 400, error |-> "Currency not found"]
InsufficientBalance == [status |-> 400, error |-> "Insufficient balance"]
PurchaseFailed == [status |-> 500, error |-> "Purchase failed"]
SaleFailed == [status |-> 500, error |-> "Sale failed"]
Purchased == [status |-> 201, error |-> ""]
Sold == [status |-> 200, error |-> ""]
NoResponse == [status |-> 0, error |-> ""]

----------------------------------------------------------------------------
(* Wallet model: server/models/Wallet.js *)

\* find(c => c.symbol = symbol): an assignment for the comparison, which
\* makes the first currency match whatever its symbol
FindAssigning(cur, symbol) == IF Len(cur) > 0 THEN 1 ELSE 0

\* this.currencies.find(c => c.symbol === symbol): index of the first match, 0 if none
Find(cur, symbol) ==
    IF \E i \in 1..Len(cur) : cur[i].symbol = symbol
    THEN CHOOSE i \in 1..Len(cur) :
            /\ cur[i].symbol = symbol
            /\ \A j \in 1..(i - 1) : cur[j].symbol # symbol
    ELSE 0

\* averageBuyPrice > 0 ? ((price - averageBuyPrice) / averageBuyPrice) * 100 : 0
ProfitLossPercentage(price, averageBuyPrice) ==
    IF Lt(Zero, averageBuyPrice)
    THEN Mul(Div(Sub(price, averageBuyPrice), averageBuyPrice), Hundred)
    ELSE Zero

\* a merge that averages the two prices without their quantities
MergedAverageUnweighted(oldAmount, oldAverage, amount, price) ==
    Div(Add(oldAverage, price), Rat(2, 1))

\* a merge that reads the position's amount after it was raised to totalAmount
MergedAverageStaleAmount(oldAmount, oldAverage, amount, price) ==
    LET totalAmount == Add(oldAmount, amount)
        totalCost == Add(Mul(totalAmount, oldAverage), Mul(amount, price))
    IN  Div(totalCost, totalAmount)

\* totalCost / totalAmount of a buy of (amount, price) merged into a position
MergedAverage(oldAmount, oldAverage, amount, price) ==
    LET totalAmount == Add(oldAmount, amount)
        totalCost == Add(Mul(oldAmount, oldAverage), Mul(amount, price))
    IN  Div(totalCost, totalAmount)

\* a push that leaves averageBuyPrice to the schema default
NewCurrencyDefaultAverage(symbol, name, amount, price) ==
    [symbol |-> symbol,
     name |-> name,
     amount |-> amount,
     averageBuyPrice |-> Zero,
     currentPrice |-> price,
     value |-> Mul(amount, price),
     profitLoss |-> Zero,
     profitLossPercentage |-> Zero]

\* the sub-document pushed for a symbol that has no position
NewCurrency(symbol, name, amount, price) ==
    [symbol |-> symbol,
     name |-> name,
     amount |-> amount,
     averageBuyPrice |-> price,
     currentPrice |-> price,
     value |-> Mul(amount, price),
     profitLoss |-> Zero,
     profitLossPercentage |-> Zero]

\* walletSchema.methods.addOrUpdateCurrency
AddOrUpdateCurrency(cur, symbol, name, amount, price) ==
    LET i == Find(cur, symbol) IN
    IF i # 0
    THEN LET totalAmount == Add(cur[i].amount, amount)
             averageBuyPrice ==
                 MergedAverage(cur[i].amount, cur[i].averageBuyPrice, amount, price)
             value == Mul(totalAmount, price)
         IN  [cur EXCEPT ![i] =
                [symbol |-> cur[i].symbol,
                 name |-> cur[i].name,
                 amount |-> totalAmount,
                 averageBuyPrice |-> averageBuyPrice,
                 currentPrice |-> price,
                 value |-> value,
                 profitLoss |-> Sub(value, Mul(totalAmount, averageBuyPrice)),
                 profitLossPercentage |->
                    ProfitLossPercentage(price, averageBuyPrice)]]
    ELSE Append(cur, NewCurrency(symbol, name, amount, price))

\* if (newPrice): the symbol is quoted and the quote is not 0
Truthy(priceData, symbol) ==
    /\ symbol \in DOMAIN priceData
    /\ priceData[symbol] # Zero

\* a price update that sets currentPrice and leaves value and profitLoss
RepricedStaleValue(currency, newPrice) ==
    [currency EXCEPT
        !.currentPrice = newPrice,
        !.profitLossPercentage =
            ProfitLossPercentage(newPrice, currency.averageBuyPrice)]

\* the body of the forEach callback for a currency with a truthy newPrice
Repriced(currency, newPrice) ==
    LET value == Mul(currency.amount, newPrice)
    IN  [currency EXCEPT
            !.currentPrice = newPrice,
            !.value = value,
            !.profitLoss = Sub(value, Mul(currency.amount, currency.averageBuyPrice)),
            !.profitLossPercentage =
                ProfitLossPercentage(newPrice, currency.averageBuyPrice)]

\* an update that reprices the currencies missing from priceData at 0
UpdateCurrencyPricesZeroing(cur, priceData) ==
    [i \in 1..Len(cur) |->
        IF Truthy(priceData, cur[i].symbol)
        THEN Repriced(cur[i], priceData[cur[i].symbol])
        ELSE Repriced(cur[i], Zero)]

\* walletSchema.methods.updateCurrencyPrices
UpdateCurrencyPrices(cur, priceData) ==
    [i \in 1..Len(cur) |->
        IF Truthy(priceData, cur[i].symbol)
        THEN Repriced(cur[i], priceData[cur[i].symbol])
        ELSE cur[i]]

\* the min validators of the currencies sub-schema, run by wallet.save()
WalletValid(cur) ==
    \A i \in 1..Len(cur) :
        /\ cur[i].symbol # ""
        /\ cur[i].name # ""
        /\ Le(Zero, cur[i].amount)
        /\ Le(Zero, cur[i].averageBuyPrice)
        /\ Le(Zero, cur[i].currentPrice)
        /\ Le(Zero, cur[i].value)

\* a total read from the stored totalBalance field, which no route updates
TotalPortfolioValueFromBalance(cur) == Zero

\* walletSchema.virtual('totalPortfolioValue'): reduce((total, c) => total + c.value, 0)
RECURSIVE TotalPortfolioValue(_)
TotalPortfolioValue(cur) ==
    IF Len(cur) = 0 THEN Zero
    ELSE Add(TotalPortfolioValue(SubSeq(cur, 1, Len(cur) - 1)), cur[Len(cur)].value)

\* walletSchema.virtual('totalProfitLoss'): reduce((total, c) => total + c.profitLoss, 0)
RECURSIVE TotalProfitLoss(_)
TotalProfitLoss(cur) ==
    IF Len(cur) = 0 THEN Zero
    ELSE Add(TotalProfitLoss(SubSeq(cur, 1, Len(cur) - 1)), cur[Len(cur)].profitLoss)

\* totalInvestment: reduce((total, c) => total + (c.amount * c.averageBuyPrice), 0)
RECURSIVE TotalInvestment(_)
TotalInvestment(cur) ==
    IF Len(cur) = 0 THEN Zero
    ELSE Add(TotalInvestment(SubSeq(cur, 1, Len(cur) - 1)),
             Mul(cur[Len(cur)].amount, cur[Len(cur)].averageBuyPrice))

\* a percentage without the test for a zero investment
TotalProfitLossPercentageUnguarded(cur) ==
    IF TotalInvestment(cur) = Zero THEN NaN
    ELSE Mul(Div(Sub(TotalPortfolioValue(cur), TotalInvestment(cur)),
                 TotalInvestment(cur)), Hundred)

\* walletSchema.virtual('totalProfitLossPercentage')
TotalProfitLossPercentage(cur) ==
    IF TotalInvestment(cur) = Zero THEN Zero
    ELSE Mul(Div(Sub(TotalPortfolioValue(cur), TotalInvestment(cur)),
                 TotalInvestment(cur)), Hundred)

----------------------------------------------------------------------------
(* Transaction model and the routes of server/routes/wallet.js *)

FeeRate == Rat(1, 100)

\* new Transaction({...}) followed by completeTransaction()
NewTransaction(type, symbol, name, amount, price, fiatAmount) ==
    [type |-> type,
     symbol |-> symbol,
     name |-> name,
     amount |-> amount,
     price |-> price,
     fiat |-> fiatAmount,
     fees |-> Mul(fiatAmount, FeeRate),
     status |-> "completed"]

\* a filter whose test keeps every currency
FilterOutNone(cur, symbol) == cur

\* a removal by splice(index) without a delete count, which also drops every
\* currency after the removed one
FilterOutSplice(cur, symbol) ==
    IF \E i \in 1..Len(cur) : cur[i].symbol = symbol
    THEN SubSeq(cur, 1, (CHOOSE i \in 1..Len(cur) :
                            /\ cur[i].symbol = symbol
                            /\ \A j \in 1..(i - 1) : cur[j].symbol # symbol) - 1)
    ELSE cur

\* wallet.currencies.filter(c => c.symbol !== symbol)
RECURSIVE FilterOut(_, _)
FilterOut(cur, symbol) ==
    IF cur = <<>> THEN <<>>
    ELSE IF Head(cur).symbol # symbol
         THEN <<Head(cur)>> \o FilterOut(Tail(cur), symbol)
         ELSE FilterOut(Tail(cur), symbol)

\* a sell that takes the proceeds out of the cost basis of the remaining amount
ReducedCurrencyRebased(currency, amount) ==
    LET newAmount == Sub(currency.amount, amount)
        value == Mul(newAmount, currency.currentPrice)
        averageBuyPrice ==
            IF newAmount = Zero THEN Zero
            ELSE Div(Sub(Mul(currency.amount, currency.averageBuyPrice),
                         Mul(amount, currency.currentPrice)), newAmount)
    IN  [currency EXCEPT
            !.amount = newAmount,
            !.averageBuyPrice = averageBuyPrice,
            !.value = value,
            !.profitLoss = Sub(value, Mul(newAmount, averageBuyPrice)),
            !.profitLossPercentage =
                ProfitLossPercentage(currency.currentPrice, averageBuyPrice)]

\* a sell that leaves the stored profitLoss as it was
ReducedCurrencyStaleProfit(currency, amount) ==
    LET newAmount == Sub(currency.amount, amount)
    IN  [currency EXCEPT
            !.amount = newAmount,
            !.value = Mul(newAmount, currency.currentPrice)]

\* "Update wallet - reduce currency amount"
ReducedCurrency(currency, amount) ==
    LET newAmount == Sub(currency.amount, amount)
        value == Mul(newAmount, currency.currentPrice)
    IN  [currency EXCEPT
            !.amount = newAmount,
            !.value = value,
            !.profitLoss = Sub(value, Mul(newAmount, currency.averageBuyPrice)),
            !.profitLossPercentage =
                ProfitLossPercentage(currency.currentPrice, currency.averageBuyPrice)]

\* a removal test that misses the amount 0
ExhaustedBelowZero(amount) == Lt(amount, Zero)

\* if (currency.amount <= 0)
Exhausted(amount) == Le(amount, Zero)

\* a balance test that lets a sell of more than the held amount pass
InsufficientNever(held, amount) == FALSE

\* if (currency.amount < amount)
Insufficient(held, amount) == Lt(held, amount)

\* the wallet.currencies of a sell of amount from position i
ReduceCurrency(cur, i, amount) ==
    LET reduced == [cur EXCEPT ![i] = ReducedCurrency(cur[i], amount)]
    IN  IF Exhausted(reduced[i].amount)
        THEN FilterOut(reduced, cur[i].symbol)
        ELSE reduced

\* router.post('/buy'): the state after the request and its response
BuyHandler(cur, txs, body) ==
    IF ~BuyValid(body)
    THEN [currencies |-> cur, transactions |-> txs, res |-> ValidationFailed]
    ELSE LET symbol == ToUpperCase(Trim(body.symbol))
             name == Trim(body.name)
             transaction == NewTransaction("buy", symbol, name, body.amount,
                                           body.price, body.fiatAmount)
             updated == AddOrUpdateCurrency(cur, symbol, name, body.amount,
                                            body.price)
         IN  IF WalletValid(updated)
             THEN [currencies |-> updated,
                   transactions |-> Append(txs, transaction),
                   res |-> Purchased]
             ELSE [currencies |-> cur,
                   transactions |-> Append(txs, transaction),
                   res |-> PurchaseFailed]

\* router.post('/sell'): the state after the request and its response
SellHandler(cur, txs, body) ==
    IF ~SellValid(body)
    THEN [currencies |-> cur, transactions |-> txs, res |-> ValidationFailed]
    ELSE LET symbol == ToUpperCase(Trim(body.symbol))
             i == Find(cur, symbol)
         IN  IF i = 0
             THEN [currencies |-> cur, transactions |-> txs,
                   res |-> CurrencyNotFound]
             ELSE IF Insufficient(cur[i].amount, body.amount)
             THEN [currencies |-> cur, transactions |-> txs,
                   res |-> InsufficientBalance]
             ELSE LET fiatAmount == Mul(body.amount, body.price)
                      transaction ==
                          NewTransaction("sell", symbol, cur[i].name,
                                         body.amount, body.price, fiatAmount)
                      updated == ReduceCurrency(cur, i, body.amount)
                  IN  IF WalletValid(updated)
                      THEN [currencies |-> updated,
                            transactions |-> Append(txs, transaction),
                            res |-> Sold]
                      ELSE [currencies |-> cur,
                            transactions |-> Append(txs, transaction),
                            res |-> SaleFailed]

----------------------------------------------------------------------------
(* Portfolio history: recordPortfolioSnapshot and GET /portfolio-history *)

RetentionDays == 365
DefaultDays == 30

\* req.query.days as typed in the URL: a string of decimal digits, possibly empty
QueryStrings == {<<>>, <<0>>, <<3, 0>>, <<3, 6, 5>>, <<4, 0, 0>>}

\* parseInt(days): the number the digits spell, NaN when there is no digit
RECURSIVE ParseInt(_)
ParseInt(digits) ==
    IF Len(digits) = 0 THEN NaN
    ELSE IF Len(digits) = 1 THEN <<digits[1], 1>>
    ELSE <<10 * ParseInt(SubSeq(digits, 1, Len(digits) - 1))[1] + digits[Len(digits)], 1>>

\* the days a request can ask for: a parsed query string or the default
QueryDays == {ParseInt(q) : q \in QueryStrings} \cup {<<DefaultDays, 1>>}

\* cutoffDate = new Date(); cutoffDate.setDate(cutoffDate.getDate() - days):
\* an Invalid Date when days is NaN
CutoffDate(now, days) ==
    IF days = NaN THEN NaN ELSE <<now - days[1], 1>>

\* record.date >= cutoffDate: false against an Invalid Date
NotBefore(date, cutoffDate) == cutoffDate # NaN /\ date >= cutoffDate[1]

\* a snapshot dated new Date(0)
SnapshotUndated(cur, now) ==
    [date |-> 0,
     totalValue |-> TotalPortfolioValue(cur),
     currencies |-> [i \in 1..Len(cur) |->
                        [symbol |-> cur[i].symbol, amount |-> cur[i].amount,
                         price |-> cur[i].currentPrice, value |-> cur[i].value]]]

\* the snapshot of the current wallet
Snapshot(cur, now) ==
    [date |-> now,
     totalValue |-> TotalPortfolioValue(cur),
     currencies |-> [i \in 1..Len(cur) |->
                        [symbol |-> cur[i].symbol, amount |-> cur[i].amount,
                         price |-> cur[i].currentPrice, value |-> cur[i].value]]]

\* a recordPortfolioSnapshot that only appends
RecordPortfolioSnapshotUnpruned(cur, history, now) ==
    Append(history, Snapshot(cur, now))

\* walletSchema.methods.recordPortfolioSnapshot
RecordPortfolioSnapshot(cur, history, now) ==
    SelectSeq(Append(history, Snapshot(cur, now)),
              LAMBDA record : NotBefore(record.date, CutoffDate(now, <<RetentionDays, 1>>)))

\* the place of a record among records sorted by descending date
RECURSIVE InsertDescending(_, _)
InsertDescending(sorted, record) ==
    IF sorted = <<>> THEN <<record>>
    ELSE IF record.date > Head(sorted).date THEN <<record>> \o sorted
    ELSE <<Head(sorted)>> \o InsertDescending(Tail(sorted), record)

\* a sort with the comparator (a, b) => b.date - a.date
RECURSIVE SortByDateDescending(_)
SortByDateDescending(records) ==
    IF records = <<>> THEN <<>>
    ELSE InsertDescending(SortByDateDescending(SubSeq(records, 1, Len(records) - 1)),
                          records[Len(records)])

\* the place of a record among records sorted by date: behind every record
\* that the comparator (a, b) => a.date - b.date does not put after it
RECURSIVE Insert(_, _)
Insert(sorted, record) ==
    IF sorted = <<>> THEN <<record>>
    ELSE IF record.date < Head(sorted).date THEN <<record>> \o sorted
    ELSE <<Head(sorted)>> \o Insert(Tail(sorted), record)

\* .sort((a, b) => a.date - b.date): a stable sort, ascending by date
RECURSIVE SortByDate(_)
SortByDate(records) ==
    IF records = <<>> THEN <<>>
    ELSE Insert(SortByDate(SubSeq(records, 1, Len(records) - 1)),
                records[Len(records)])

\* "Filter portfolio history by days"
QueryHistory(history, now, days) ==
    SortByDate(SelectSeq(history,
                         LAMBDA record : NotBefore(record.date, CutoffDate(now, days))))

\* a response that carries the filtered history as it is, empty or not
PortfolioHistoryHandlerUnfilled(cur, history, now, days) ==
    [status |-> 200, error |-> "",
     data |-> [portfolioHistory |-> QueryHistory(history, now, days),
               currentValue |-> TotalPortfolioValue(cur),
               totalProfitLoss |-> TotalProfitLoss(cur),
               totalProfitLossPercentage |-> TotalProfitLossPercentage(cur)]]

\* router.get('/portfolio-history'): the response for the wallet found
PortfolioHistoryHandler(cur, history, now, days) ==
    LET filtered == QueryHistory(history, now, days)
    IN  [status |-> 200, error |-> "",
         data |-> [portfolioHistory |->
                       IF Len(filtered) = 0 THEN <<Snapshot(cur, now)>> ELSE filtered,
                   currentValue |-> TotalPortfolioValue(cur),
                   totalProfitLoss |-> TotalProfitLoss(cur),
                   totalProfitLossPercentage |-> TotalProfitLossPercentage(cur)]]

\* a history request that saves the point it synthesized
StoredAfterQuerySaving(cur, history, now, days) ==
    IF Len(QueryHistory(history, now, days)) = 0
    THEN Append(history, Snapshot(cur, now))
    ELSE history

\* wallet.portfolioHistory after the history request: filter() builds a new
\* array, the point is pushed to that array, and the wallet is never saved
StoredAfterQuery(cur, history, now, days) == history

\* router.get('/'): the response for the wallet found
WalletHandler(cur) ==
    [status |-> 200, error |-> "",
     data |-> [wallet |-> [totalBalance |-> Zero,
                           totalPortfolioValue |-> TotalPortfolioValue(cur),
                           totalProfitLoss |-> TotalProfitLoss(cur),
                           totalProfitLossPercentage |-> TotalProfitLossPercentage(cur),
                           currencies |-> cur]]]

----------------------------------------------------------------------------
(* The state machine *)

Init ==
    /\ currencies = <<>>
    /\ transactions = <<>>
    /\ res = NoResponse
    /\ portfolioHistory = <<>>
    /\ clock = 0
    /\ sells = <<>>
    /\ version = 0
    /\ client = <<>>
    /\ accounts = <<>>

Commit(out) ==
    /\ Len(out.transactions) <= MaxTx
    /\ currencies' = out.currencies
    /\ transactions' = out.transactions
    /\ res' = out.res
    /\ UNCHANGED <<portfolioHistory, clock, sells, version, client, accounts>>

\* a /buy request with some body is handled
Buy ==
    \E out \in {BuyHandler(currencies, transactions, body) : body \in BuyBodies} :
        Commit(out)

\* a /sell request with some body is handled
Sell ==
    \E out \in {SellHandler(currencies, transactions, body) : body \in SellBodies} :
        Commit(out)

\* updateCurrencyPrices is applied with some priceData and the wallet is saved
UpdatePrices ==
    \E updated \in {UpdateCurrencyPrices(currencies, priceData) :
                        priceData \in PriceDatas} :
        /\ currencies' = updated
        /\ UNCHANGED <<transactions, res, portfolioHistory, clock, sells, version, client, accounts>>

Next == Buy \/ Sell \/ UpdatePrices

Spec == Init /\ [][Next]_vars

----------------------------------------------------------------------------
(* The state machine of the portfolio history *)

\* the days that pass between two steps
TickDays == {182, 183}

\* a second symbol bought into the wallet
EthBuyBody == [BuyBody EXCEPT !.symbol = "eth", !.price = Rat(3, 1)]

\* the wallets a history starts from: new, and after a buy of each symbol
StartingWallets ==
    LET created == [currencies |-> <<>>, transactions |-> <<>>, res |-> NoResponse]
        bought == BuyHandler(created.currencies, created.transactions, BuyBody)
    IN  {created, BuyHandler(bought.currencies, bought.transactions, EthBuyBody)}

InitHistory ==
    /\ \E out \in StartingWallets :
          /\ currencies = out.currencies
          /\ transactions = out.transactions
          /\ res = out.res
    /\ portfolioHistory = <<>>
    /\ clock = 0
    /\ sells = <<>>
    /\ version = 0
    /\ client = <<>>
    /\ accounts = <<>>

\* time passes
Tick ==
    \E days \in TickDays :
        /\ clock + days <= MaxClock
        /\ clock' = clock + days
        /\ UNCHANGED <<currencies, transactions, res, portfolioHistory, sells, version, client, accounts>>

\* recordPortfolioSnapshot is called on the wallet and the wallet is saved
RecordSnapshot ==
    /\ Len(portfolioHistory) < MaxSnapshots
    /\ portfolioHistory' = RecordPortfolioSnapshot(currencies, portfolioHistory, clock)
    /\ UNCHANGED <<currencies, transactions, res, clock, sells, version, client, accounts>>

\* a GET /portfolio-history request is handled
GetPortfolioHistory ==
    \E out \in {[res |-> PortfolioHistoryHandler(currencies, portfolioHistory, clock, days),
                  portfolioHistory |->
                      StoredAfterQuery(currencies, portfolioHistory, clock, days)] :
                     days \in QueryDays} :
        /\ res' = out.res
        /\ portfolioHistory' = out.portfolioHistory
        /\ UNCHANGED <<currencies, transactions, clock, sells, version, client, accounts>>

\* a GET / request is handled
GetWallet ==
    /\ res' = WalletHandler(currencies)
    /\ UNCHANGED <<currencies, transactions, portfolioHistory, clock, sells, version, client, accounts>>

NextHistory ==
    Tick \/ RecordSnapshot \/ GetPortfolioHistory \/ GetWallet \/ UpdatePrices

SpecHistory == InitHistory /\ [][NextHistory]_vars

----------------------------------------------------------------------------
(* Two /sell requests handled concurrently: each await of the handler lets
   the other request run.  wallet.save() follows the versioning of Mongoose:
   the update is applied only to the version of the document that was read,
   and replacing the currencies array increments the version. *)

\* the two requests
Requests == {1, 2}

\* the bodies of the concurrent requests: orders of the first symbol, and one
\* that the validators reject
RaceBodies ==
    [symbol : {"btc"}, amount : OrderAmounts, price : {Rat(1, 1)}]
    \cup {[SellBody EXCEPT !.amount = Zero]}

\* the wallets the requests find: 2 or 3 units of the first symbol bought
RaceWallets ==
    LET two == BuyHandler(<<>>, <<>>, [BuyBody EXCEPT !.amount = Rat(2, 1)])
    IN  {two, BuyHandler(two.currencies, two.transactions, BuyBody)}

InitRace ==
    /\ \E out \in RaceWallets :
          /\ currencies = out.currencies
          /\ transactions = out.transactions
          /\ res = out.res
    /\ portfolioHistory = <<>>
    /\ clock = 0
    /\ \E first, second \in RaceBodies :
          sells = [r \in Requests |->
                      [pc |-> "received",
                       body |-> IF r = 1 THEN first ELSE second,
                       wallet |-> <<>>, version |-> 0, res |-> NoResponse]]
    /\ version = 0
    /\ client = <<>>
    /\ accounts = <<>>

\* request r ends with a response
Respond(r, response) ==
    sells' = [sells EXCEPT ![r].pc = "done", ![r].res = response]

\* the validators and handleValidationErrors
Validate(r) ==
    /\ sells[r].pc = "received"
    /\ IF SellValid(sells[r].body)
       THEN sells' = [sells EXCEPT ![r].pc = "finding"]
       ELSE Respond(r, ValidationFailed)
    /\ UNCHANGED <<currencies, transactions, res, portfolioHistory, clock, version, client, accounts>>

\* await Wallet.findOne: the request reads the persisted document
FindWallet(r) ==
    /\ sells[r].pc = "finding"
    /\ sells' = [sells EXCEPT ![r].pc = "found", ![r].wallet = currencies,
                              ![r].version = version]
    /\ UNCHANGED <<currencies, transactions, res, portfolioHistory, clock, version, client, accounts>>

\* the position the request sells from, in the document it read (0: none)
SoldFrom(r) == Find(sells[r].wallet, ToUpperCase(Trim(sells[r].body.symbol)))

\* from the currency lookup to await transaction.save()
SaveTransaction(r) ==
    /\ sells[r].pc = "found"
    /\ IF SoldFrom(r) = 0
       THEN Respond(r, CurrencyNotFound) /\ UNCHANGED transactions
       ELSE IF Insufficient(sells[r].wallet[SoldFrom(r)].amount, sells[r].body.amount)
       THEN Respond(r, InsufficientBalance) /\ UNCHANGED transactions
       ELSE /\ transactions' =
                  Append(transactions,
                         NewTransaction("sell", ToUpperCase(Trim(sells[r].body.symbol)),
                                        sells[r].wallet[SoldFrom(r)].name,
                                        sells[r].body.amount, sells[r].body.price,
                                        Mul(sells[r].body.amount, sells[r].body.price)))
            /\ sells' = [sells EXCEPT ![r].pc = "saving"]
    /\ UNCHANGED <<currencies, res, portfolioHistory, clock, version, client, accounts>>

\* an update that decrements the stored amount instead of setting it
WriteBackDecrement(persisted, local, read, i) ==
    IF Len(local) # Len(read)
    THEN local
    ELSE [persisted EXCEPT ![i] =
             [@ EXCEPT !.amount = Sub(@, Sub(read[i].amount, local[i].amount)),
                       !.value = local[i].value,
                       !.profitLoss = local[i].profitLoss,
                       !.profitLossPercentage = local[i].profitLossPercentage]]

\* the update wallet.save() sends: the currencies array when it was assigned,
\* else the four fields of position i that the handler set
WriteBack(persisted, local, read, i) ==
    IF Len(local) # Len(read)
    THEN local
    ELSE [persisted EXCEPT ![i] =
             [@ EXCEPT !.amount = local[i].amount,
                       !.value = local[i].value,
                       !.profitLoss = local[i].profitLoss,
                       !.profitLossPercentage = local[i].profitLossPercentage]]

\* from "Update wallet - reduce currency amount" to the response
SaveWallet(r) ==
    /\ sells[r].pc = "saving"
    /\ LET read == sells[r].wallet
           local == ReduceCurrency(read, SoldFrom(r), sells[r].body.amount)
       IN  IF WalletValid(local) /\ sells[r].version = version
           THEN /\ currencies' = WriteBack(currencies, local, read, SoldFrom(r))
                /\ version' = IF Len(local) # Len(read) THEN version + 1 ELSE version
                /\ Respond(r, Sold)
           ELSE /\ Respond(r, SaleFailed)
                /\ UNCHANGED <<currencies, version>>
    /\ UNCHANGED <<transactions, res, portfolioHistory, clock, client, accounts>>

NextRace ==
    \E r \in Requests :
        Validate(r) \/ FindWallet(r) \/ SaveTransaction(r) \/ SaveWallet(r)

SpecRace == InitRace /\ [][NextRace]_vars

----------------------------------------------------------------------------
(* The browser: AuthProvider and WalletProvider.  A request is started by a
   call of a context function and ends when its response is delivered; the
   responses of the requests in flight arrive in any order.  The payloads of
   the server are abstract values. *)

MaxStarted == 4  \* requests the contexts start after mounting

\* null, and the values the server sends
Null == "null"
Users == {"user"}
UpdatedUsers == {"user updated"}
Tokens == {"jwt"}

\* the auth context: initialState and authReducer
AuthInitialState ==
    [user |-> Null, token |-> Null, isLoading |-> TRUE, isAuthenticated |-> FALSE]

\* a reducer whose AUTH_LOGOUT keeps the user and the token
AuthReducerKeepingSession(state, action) ==
    CASE action.type = "AUTH_START" -> [state EXCEPT !.isLoading = TRUE]
      [] action.type = "AUTH_SUCCESS" ->
            [state EXCEPT !.isLoading = FALSE, !.isAuthenticated = TRUE,
                          !.user = action.user, !.token = action.token]
      [] action.type = "AUTH_FAILURE" ->
            [state EXCEPT !.isLoading = FALSE, !.isAuthenticated = FALSE,
                          !.user = Null, !.token = Null]
      [] action.type = "AUTH_LOGOUT" ->
            [state EXCEPT !.isLoading = FALSE, !.isAuthenticated = FALSE]
      [] action.type = "UPDATE_USER" -> [state EXCEPT !.user = action.user]
      [] OTHER -> state

AuthReducer(state, action) ==
    CASE action.type = "AUTH_START" -> [state EXCEPT !.isLoading = TRUE]
      [] action.type = "AUTH_SUCCESS" ->
            [state EXCEPT !.isLoading = FALSE, !.isAuthenticated = TRUE,
                          !.user = action.user, !.token = action.token]
      [] action.type = "AUTH_FAILURE" ->
            [state EXCEPT !.isLoading = FALSE, !.isAuthenticated = FALSE,
                          !.user = Null, !.token = Null]
      [] action.type = "AUTH_LOGOUT" ->
            [state EXCEPT !.isLoading = FALSE, !.isAuthenticated = FALSE,
                          !.user = Null, !.token = Null]
      [] action.type = "UPDATE_USER" -> [state EXCEPT !.user = action.user]
      [] OTHER -> state

\* the wallet context: initialState and walletReducer
WalletInitialState ==
    [wallet |-> Null, transactions |-> <<>>, portfolioHistory |-> <<>>,
     isLoading |-> FALSE]

WalletReducer(state, action) ==
    CASE action.type = "WALLET_LOADING" -> [state EXCEPT !.isLoading = action.payload]
      [] action.type = "SET_WALLET" ->
            [state EXCEPT !.wallet = action.payload, !.isLoading = FALSE]
      [] action.type = "UPDATE_WALLET" ->
            [state EXCEPT !.wallet = IF state.wallet # Null THEN action.payload ELSE Null]
      [] action.type = "SET_TRANSACTIONS" -> [state EXCEPT !.transactions = action.payload]
      [] action.type = "ADD_TRANSACTION" ->
            [state EXCEPT !.transactions = <<action.payload>> \o state.transactions]
      [] action.type = "SET_PORTFOLIO_HISTORY" ->
            [state EXCEPT !.portfolioHistory = action.payload]
      [] action.type = "CLEAR_WALLET" -> WalletInitialState
      [] OTHER -> state

\* the actions dispatched one after the other
RECURSIVE WalletDispatch(_, _)
WalletDispatch(state, actions) ==
    IF actions = <<>> THEN state
    ELSE WalletDispatch(WalletReducer(state, Head(actions)), Tail(actions))

\* the functions of the two contexts
AuthKinds == {"initializeAuth", "login", "register", "logout", "updateProfile"}
WalletKinds == {"fetchWallet", "fetchTransactions", "fetchPortfolioHistory",
                "buyCryptocurrency", "sellCryptocurrency"}

\* what a request can be answered with
Outcomes == {"resolved", "rejected"}

\* the wallet context after the effect on [isAuthenticated] has run
ClearOnLogout(auth, wallet) ==
    IF ~auth.isAuthenticated THEN WalletReducer(wallet, [type |-> "CLEAR_WALLET"])
    ELSE wallet

\* the browser after mounting: both initial states, AUTH_START dispatched by
\* the initializeAuth effect, which waits for authService.initializeAuth()
InitClient ==
    /\ client = [auth |-> AuthReducer(AuthInitialState, [type |-> "AUTH_START"]),
                 wallet |-> ClearOnLogout(AuthInitialState, WalletInitialState),
                 pending |-> {"initializeAuth"},
                 started |-> 0]
    /\ currencies = <<>>
    /\ transactions = <<>>
    /\ res = NoResponse
    /\ portfolioHistory = <<>>
    /\ clock = 0
    /\ sells = <<>>
    /\ version = 0
    /\ accounts = <<>>

\* the browser with one more request of the kind in flight
Started(kind, auth, wallet) ==
    [client EXCEPT !.auth = auth, !.wallet = wallet,
                   !.pending = @ \cup {kind}, !.started = @ + 1]

\* login, register: AUTH_START, then the request; logout, updateProfile: the
\* request only
StartAuth(kind) ==
    /\ kind \in AuthKinds \ {"initializeAuth"}
    /\ kind \notin client.pending
    /\ client.started < MaxStarted
    /\ client' = Started(kind,
                         IF kind \in {"login", "register"}
                         THEN AuthReducer(client.auth, [type |-> "AUTH_START"])
                         ELSE client.auth,
                         client.wallet)
    /\ UNCHANGED <<currencies, transactions, res, portfolioHistory, clock, sells,
                   version, accounts>>

\* a function of the wallet context: returns at once when not authenticated;
\* fetchWallet, buy and sell dispatch WALLET_LOADING before the request
StartWallet(kind) ==
    /\ kind \in WalletKinds
    /\ kind \notin client.pending
    /\ client.started < MaxStarted
    /\ client.auth.isAuthenticated
    /\ client' = Started(kind, client.auth,
                         IF kind \in {"fetchWallet", "buyCryptocurrency",
                                      "sellCryptocurrency"}
                         THEN WalletReducer(client.wallet,
                                            [type |-> "WALLET_LOADING", payload |-> TRUE])
                         ELSE client.wallet)
    /\ UNCHANGED <<currencies, transactions, res, portfolioHistory, clock, sells,
                   version, accounts>>

\* the actions the auth context dispatches when the request ends
AuthResponses(kind, outcome) ==
    CASE kind = "logout" -> {[type |-> "AUTH_LOGOUT"]}
      [] kind = "updateProfile" /\ outcome = "resolved" ->
            {[type |-> "UPDATE_USER", user |-> u] : u \in UpdatedUsers}
      [] kind = "updateProfile" /\ outcome = "rejected" -> {[type |-> "NONE"]}
      [] kind = "initializeAuth" /\ outcome = "resolved" ->
            {[type |-> "AUTH_SUCCESS", user |-> u, token |-> t] :
                u \in Users, t \in Tokens \cup {""}}
      [] kind \in {"login", "register"} /\ outcome = "resolved" ->
            {[type |-> "AUTH_SUCCESS", user |-> u, token |-> t] :
                u \in Users, t \in Tokens}
      [] OTHER -> {[type |-> "AUTH_FAILURE"]}

\* the actions the wallet context dispatches when the request ends
WalletResponses(kind, outcome) ==
    CASE kind = "fetchWallet" /\ outcome = "resolved" ->
            <<[type |-> "SET_WALLET", payload |-> "wallet"]>>
      [] kind = "fetchTransactions" /\ outcome = "resolved" ->
            <<[type |-> "SET_TRANSACTIONS", payload |-> <<"transaction">>]>>
      [] kind = "fetchPortfolioHistory" /\ outcome = "resolved" ->
            <<[type |-> "SET_PORTFOLIO_HISTORY", payload |-> <<"snapshot">>]>>
      [] kind \in {"buyCryptocurrency", "sellCryptocurrency"} /\ outcome = "resolved" ->
            <<[type |-> "UPDATE_WALLET", payload |-> "wallet updated"],
              [type |-> "ADD_TRANSACTION", payload |-> "transaction"],
              [type |-> "WALLET_LOADING", payload |-> FALSE]>>
      [] kind \in {"fetchWallet", "buyCryptocurrency", "sellCryptocurrency"}
            /\ outcome = "rejected" ->
            <<[type |-> "WALLET_LOADING", payload |-> FALSE]>>
      [] OTHER -> <<>>

\* the response of an auth request is delivered; the effect of WalletProvider
\* runs when isAuthenticated has changed
DeliverAuth(kind) ==
    /\ kind \in AuthKinds \cap client.pending
    /\ \E outcome \in Outcomes :
          \E action \in AuthResponses(kind, outcome) :
             LET auth == AuthReducer(client.auth, action)
             IN  client' = [client EXCEPT
                               !.auth = auth,
                               !.wallet =
                                   IF auth.isAuthenticated # client.auth.isAuthenticated
                                   THEN ClearOnLogout(auth, client.wallet)
                                   ELSE client.wallet,
                               !.pending = @ \ {kind}]
    /\ UNCHANGED <<currencies, transactions, res, portfolioHistory, clock, sells,
                   version, accounts>>

\* the response of a wallet request is delivered
DeliverWallet(kind) ==
    /\ kind \in WalletKinds \cap client.pending
    /\ \E outcome \in Outcomes :
          client' = [client EXCEPT
                        !.wallet = WalletDispatch(client.wallet,
                                                  WalletResponses(kind, outcome)),
                        !.pending = @ \ {kind}]
    /\ UNCHANGED <<currencies, transactions, res, portfolioHistory, clock, sells,
                   version, accounts>>

NextClient ==
    \/ \E kind \in AuthKinds : StartAuth(kind) \/ DeliverAuth(kind)
    \/ \E kind \in WalletKinds : StartWallet(kind) \/ DeliverWallet(kind)

SpecClient == InitClient /\ [][NextClient]_vars

----------------------------------------------------------------------------
(* Registration: router.post('/register') handled step by step, one step per
   await, by requests that run concurrently; a save of a document is written
   or rejected by the database *)

Registrations == 1..2
Emails == {"ann@mail.io", "bob@mail.io"}

UserExists == [status |-> 400, error |-> "User already exists"]
DuplicateField == [status |-> 400, error |-> "Duplicate field"]
RegistrationFailed == [status |-> 500, error |-> "Registration failed"]
Registered == [status |-> 201, error |-> ""]
WalletNotFound == [status |-> 404, error |-> "Wallet not found"]

\* what the database answers to a save
SaveOutcomes == {"written", "rejected"}

\* no user, no wallet, no request received
InitRegister ==
    /\ accounts = [users |-> {}, wallets |-> {},
                   registrations |-> [r \in Registrations |->
                                         [pc |-> "idle", email |-> "",
                                          res |-> NoResponse]]]
    /\ currencies = <<>>
    /\ transactions = <<>>
    /\ res = NoResponse
    /\ portfolioHistory = <<>>
    /\ clock = 0
    /\ sells = <<>>
    /\ version = 0
    /\ client = <<>>

\* the request is answered
Answer(r, response) ==
    [accounts.registrations EXCEPT ![r].pc = "done", ![r].res = response]

\* the request moves on to its next await
Proceed(r, pc) == [accounts.registrations EXCEPT ![r].pc = pc]

\* a valid body arrives
Register(r) ==
    /\ accounts.registrations[r].pc = "idle"
    /\ \E email \in Emails :
          accounts' = [accounts EXCEPT
                          !.registrations[r].pc = "finding",
                          !.registrations[r].email = email]
    /\ UNCHANGED <<currencies, transactions, res, portfolioHistory, clock, sells,
                   version, client>>

\* await User.findByEmailOrUsername(email); if (existingUser) 400
FindExistingUser(r) ==
    LET request == accounts.registrations[r] IN
    /\ request.pc = "finding"
    /\ accounts' = [accounts EXCEPT !.registrations =
                       IF request.email \in accounts.users
                       THEN Answer(r, UserExists)
                       ELSE Proceed(r, "saving user")]
    /\ UNCHANGED <<currencies, transactions, res, portfolioHistory, clock, sells,
                   version, client>>

\* await user.save(): the unique index on email rejects a second user with
\* code 11000
SaveUser(r) ==
    LET request == accounts.registrations[r] IN
    /\ request.pc = "saving user"
    /\ \E outcome \in SaveOutcomes :
          accounts' =
              IF request.email \in accounts.users
              THEN [accounts EXCEPT !.registrations = Answer(r, DuplicateField)]
              ELSE IF outcome = "rejected"
              THEN [accounts EXCEPT !.registrations = Answer(r, RegistrationFailed)]
              ELSE [accounts EXCEPT !.users = @ \cup {request.email},
                                    !.registrations = Proceed(r, "saving wallet")]
    /\ UNCHANGED <<currencies, transactions, res, portfolioHistory, clock, sells,
                   version, client>>

\* the catch block: the response, and nothing else
WalletRejected(r) ==
    [accounts EXCEPT !.registrations = Answer(r, RegistrationFailed)]

\* new Wallet({user: user._id, currencies: [], ...}); await wallet.save()
SaveNewWallet(r) ==
    LET request == accounts.registrations[r] IN
    /\ request.pc = "saving wallet"
    /\ \E outcome \in SaveOutcomes :
          accounts' =
              IF outcome = "rejected"
              THEN WalletRejected(r)
              ELSE [accounts EXCEPT !.wallets = @ \cup {request.email},
                                    !.registrations = Proceed(r, "saving login")]
    /\ UNCHANGED <<currencies, transactions, res, portfolioHistory, clock, sells,
                   version, client>>

\* user.lastLogin = new Date(); await user.save(); res.status(201)
SaveLastLogin(r) ==
    /\ accounts.registrations[r].pc = "saving login"
    /\ \E outcome \in SaveOutcomes :
          accounts' = [accounts EXCEPT !.registrations =
                          Answer(r, IF outcome = "rejected"
                                    THEN RegistrationFailed ELSE Registered)]
    /\ UNCHANGED <<currencies, transactions, res, portfolioHistory, clock, sells,
                   version, client>>

\* router.get('/') of a persisted user: Wallet.findOne({user}), 404 if none;
\* the wallet created by the registration has no currencies
GetRegisteredWallet ==
    /\ \E email \in accounts.users :
          res' = IF email \in accounts.wallets
                 THEN WalletHandler(<<>>)
                 ELSE WalletNotFound
    /\ UNCHANGED <<currencies, transactions, portfolioHistory, clock, sells,
                   version, client, accounts>>

NextRegister ==
    \/ \E r \in Registrations :
          \/ Register(r)
          \/ FindExistingUser(r)
          \/ SaveUser(r)
          \/ SaveNewWallet(r)
          \/ SaveLastLogin(r)
    \/ GetRegisteredWallet

SpecRegister == InitRegister /\ [][NextRegister]_vars

----------------------------------------------------------------------------
(* Vocabulary of the properties *)

Last(seq) == seq[Len(seq)]

\* the step appended one transaction of this type and answered with success
Accepted(type) ==
    /\ Len(transactions') = Len(transactions) + 1
    /\ Last(transactions').type = type
    /\ res'.status \in {200, 201}

Held(cur, symbol) == \E i \in 1..Len(cur) : cur[i].symbol = symbol

\* the position of a held symbol
Position(cur, symbol) == cur[CHOOSE i \in 1..Len(cur) : cur[i].symbol = symbol]

\* (currentPrice - averageCost) / averageCost * 100 when averageCost > 0, else 0
Percent(currentPrice, averageCost) ==
    IF averageCost[1] > 0
    THEN Rat((currentPrice[1] * averageCost[2] - averageCost[1] * currentPrice[2])
                * 100 * averageCost[2],
             currentPrice[2] * averageCost[2] * averageCost[1])
    ELSE Zero

\* value, profitLoss and profitLossPercent of a position follow from its
\* amount, currentPrice and averageCost
Derived(c) ==
    /\ c.value = Mul(c.amount, c.currentPrice)
    /\ c.profitLoss = Sub(c.value, Mul(c.amount, c.averageBuyPrice))
    /\ c.profitLossPercentage = Percent(c.currentPrice, c.averageBuyPrice)

----------------------------------------------------------------------------
(* C1: an accepted buy of (amount a, price p) on a symbol that already has a
   position (amount a0, averageCost c0) leaves that position with
   amount = a0 + a, averageCost = (a0*c0 + a*p) / (a0 + a), currentPrice = p,
   and value, profitLoss, profitLossPercent recomputed from the new amount,
   currentPrice and averageCost. *)
C1_BuyMerges ==
    [][(Accepted("buy") /\ Held(currencies, Last(transactions').symbol)) =>
        LET t == Last(transactions')
            old == Position(currencies, t.symbol)
            new == Position(currencies', t.symbol)
        IN  /\ Held(currencies', t.symbol)
            /\ new.amount = Add(old.amount, t.amount)
            /\ Mul(new.averageBuyPrice, Add(old.amount, t.amount))
                 = Add(Mul(old.amount, old.averageBuyPrice), Mul(t.amount, t.price))
            /\ new.currentPrice = t.price
            /\ Derived(new)]_vars

\* a buy at a price other than the position's averageCost has been merged
C1_Witness ==
    /\ Len(transactions) > 0
    /\ Last(transactions).type = "buy"
    /\ res.status = 201
    /\ Held(currencies, Last(transactions).symbol)
    /\ LET c == Position(currencies, Last(transactions).symbol)
       IN  /\ Lt(Last(transactions).amount, c.amount)
           /\ c.averageBuyPrice # Last(transactions).price
           /\ c.profitLoss # Zero

(* C2: an accepted buy on a symbol with no position creates exactly one
   position for that symbol, with the bought amount, averageCost = price,
   currentPrice = price, value = amount*price, profitLoss = 0 and
   profitLossPercent = 0. *)
C2_BuyCreates ==
    [][(Accepted("buy") /\ ~Held(currencies, Last(transactions').symbol)) =>
        LET t == Last(transactions')
        IN  /\ Cardinality({i \in 1..Len(currencies') :
                              currencies'[i].symbol = t.symbol}) = 1
            /\ Len(currencies') = Len(currencies) + 1
            /\ LET new == Position(currencies', t.symbol)
               IN  /\ new.amount = t.amount
                   /\ new.averageBuyPrice = t.price
                   /\ new.currentPrice = t.price
                   /\ new.value = Mul(t.amount, t.price)
                   /\ new.profitLoss = Zero
                   /\ new.profitLossPercentage = Zero]_vars

\* a second symbol has just been bought for the first time
C2_Witness ==
    /\ Len(transactions) > 0
    /\ Last(transactions).type = "buy"
    /\ res.status = 201
    /\ Len(currencies) = 2
    /\ Last(currencies).symbol = Last(transactions).symbol
    /\ Last(currencies).amount = Last(transactions).amount
    /\ Last(currencies).value = Rat(6, 1)

\* The buys of a symbol recorded since it was last absent, read from the first
\* n transactions: their total amount and cost, the amount still held, and
\* whether a partial sell came in between.
RECURSIVE BuysSinceAbsent(_, _, _)
BuysSinceAbsent(txs, symbol, n) ==
    LET none == [amount |-> Zero, cost |-> Zero, held |-> Zero, sold |-> FALSE] IN
    IF n = 0 THEN none
    ELSE LET before == BuysSinceAbsent(txs, symbol, n - 1)
             t == txs[n]
         IN  IF t.symbol # symbol THEN before
             ELSE IF t.type = "buy"
             THEN [amount |-> Add(before.amount, t.amount),
                   cost |-> Add(before.cost, Mul(t.amount, t.price)),
                   held |-> Add(before.held, t.amount),
                   sold |-> before.sold]
             ELSE IF t.amount = before.held THEN none
             ELSE [before EXCEPT !.held = Sub(before.held, t.amount), !.sold = TRUE]

\* the position of the symbol after buys of (a1, p1) and then (a2, p2)
AfterBuys(cur, symbol, a1, p1, a2, p2) ==
    Position(AddOrUpdateCurrency(AddOrUpdateCurrency(cur, symbol, "Coin", a1, p1),
                                 symbol, "Coin", a2, p2),
             symbol)

\* applying buys B1 then B2 of one symbol yields the same amount and averageCost
\* as B2 then B1
ReorderInvariant ==
    \A symbol \in {"BTC", "ETH"} :
        \A pair \in {S \in SUBSET (OrderAmounts \X OrderPrices) : Cardinality(S) = 2} :
            LET b1 == CHOOSE b \in pair : TRUE
                b2 == CHOOSE b \in pair : b # b1
                x == AfterBuys(currencies, symbol, b1[1], b1[2], b2[1], b2[2])
                y == AfterBuys(currencies, symbol, b2[1], b2[2], b1[1], b1[2])
            IN  /\ x.amount = y.amount
                /\ x.averageBuyPrice = y.averageBuyPrice

(* C3 as claimed: the averageCost of every position equals the
   quantity-weighted mean of the prices of the buys of its symbol since the
   symbol was last absent, partial sells in between or not, and the order of
   two buys does not matter. *)
C3_Claimed ==
    /\ ReorderInvariant
    /\ \A i \in 1..Len(currencies) :
          LET b == BuysSinceAbsent(transactions, currencies[i].symbol,
                                   Len(transactions))
          IN  Mul(currencies[i].averageBuyPrice, b.amount) = b.cost

(* C3 as amended: when no sell of the symbol came in between, the averageCost
   of a position equals the quantity-weighted mean of the prices of the buys of
   its symbol since the symbol was last absent (sum of amount*price divided by
   sum of amount) and its amount is their total, price updates in between or
   not; the order of two buys does not matter in any state. *)
C3_WeightedMean ==
    /\ ReorderInvariant
    /\ \A i \in 1..Len(currencies) :
          LET b == BuysSinceAbsent(transactions, currencies[i].symbol,
                                   Len(transactions))
          IN  ~b.sold =>
                /\ currencies[i].amount = b.amount
                /\ Mul(currencies[i].averageBuyPrice, b.amount) = b.cost

\* buys at different prices have been merged and the price updated since,
\* with no sell of the symbol
C3_Witness ==
    \E i \in 1..Len(currencies) :
        LET b == BuysSinceAbsent(transactions, currencies[i].symbol,
                                 Len(transactions))
        IN  /\ ~b.sold
            /\ Lt(Rat(2, 1), b.amount)
            /\ currencies[i].averageBuyPrice \notin OrderPrices
            /\ currencies[i].currentPrice \notin OrderPrices

(* C4: an accepted sell that leaves a positive remaining amount never changes
   the averageCost of that position, for any sell amount and sell price. *)
C4_SellKeepsAverage ==
    [][(Accepted("sell") /\ Held(currencies', Last(transactions').symbol)) =>
        /\ Held(currencies, Last(transactions').symbol)
        /\ Position(currencies', Last(transactions').symbol).averageBuyPrice
             = Position(currencies, Last(transactions').symbol).averageBuyPrice]_vars

\* a partial sell at a price other than the averageCost of a blended position
C4_Witness ==
    /\ Len(transactions) > 0
    /\ Last(transactions).type = "sell"
    /\ res.status = 200
    /\ Held(currencies, Last(transactions).symbol)
    /\ LET c == Position(currencies, Last(transactions).symbol)
       IN  /\ c.averageBuyPrice \notin OrderPrices
           /\ Lt(Zero, c.amount)

(* C5: in every state reachable by buys, sells and price updates handled one
   at a time, every position of the wallet has amount > 0, and a sell of
   exactly the held amount removes the position. *)
C5_AmountsPositive ==
    /\ \A i \in 1..Len(currencies) : currencies[i].amount[1] > 0
    /\ \A body \in SellBodies :
          LET symbol == ToUpperCase(Trim(body.symbol)) IN
          (/\ SellValid(body)
           /\ Held(currencies, symbol)
           /\ Position(currencies, symbol).amount = body.amount)
            => ~Held(SellHandler(currencies, transactions, body).currencies, symbol)

\* a sell has exhausted a position, which is gone, while another one is held
C5_Witness ==
    /\ Len(transactions) > 0
    /\ Last(transactions).type = "sell"
    /\ res.status = 200
    /\ ~Held(currencies, Last(transactions).symbol)
    /\ Len(currencies) = 1

\* the request left the persisted state as it was
Untouched(out) ==
    /\ out.currencies = currencies
    /\ out.transactions = transactions

(* C6: a well-formed sell whose amount exceeds the held amount of the symbol is
   rejected with the insufficient-balance error and leaves the persisted state
   unchanged: no position field changes, no position is removed and no
   transaction record is created. *)
C6_OversellRejected ==
    \A body \in SellBodies :
        LET symbol == ToUpperCase(Trim(body.symbol))
            out == SellHandler(currencies, transactions, body)
        IN  (/\ SellValid(body)
             /\ Held(currencies, symbol)
             /\ Lt(Position(currencies, symbol).amount, body.amount))
              => /\ out.res = InsufficientBalance
                 /\ Untouched(out)

\* a sell of more than the held amount has just been rejected
C6_Witness ==
    /\ res = InsufficientBalance
    /\ Len(transactions) > 0
    /\ \E i \in 1..Len(currencies) :
          \E body \in SellBodies :
              /\ ToUpperCase(Trim(body.symbol)) = currencies[i].symbol
              /\ Lt(currencies[i].amount, body.amount)

(* C7: a well-formed sell for a symbol that has no position in the wallet,
   compared after upper-casing the requested symbol, is rejected with
   'Currency not found' and leaves positions and transaction records
   unchanged; a sell for a held symbol typed in lower case is not. *)
C7_UnknownSymbolRejected ==
    \A body \in SellBodies :
        LET out == SellHandler(currencies, transactions, body) IN
        SellValid(body) =>
            IF \E i \in 1..Len(currencies) :
                  currencies[i].symbol = ToUpperCase(Trim(body.symbol))
            THEN out.res # CurrencyNotFound
            ELSE out.res = CurrencyNotFound /\ Untouched(out)

\* a sell for a symbol that is not held has just been rejected, in a wallet
\* that holds another symbol
C7_Witness ==
    /\ res = CurrencyNotFound
    /\ Len(currencies) = 1
    /\ \E body \in SellBodies :
          /\ SellValid(body)
          /\ ~Held(currencies, ToUpperCase(Trim(body.symbol)))

(* C8: an accepted sell at price p that leaves a remaining quantity r > 0 sets
   the position's currentPrice to p, value = r*p, profitLoss = r*p -
   r*averageCost and profitLossPercent from p, whatever currentPrice the
   position had before the sell. *)
C8_SellSetsCurrentPrice ==
    [][(Accepted("sell") /\ Held(currencies', Last(transactions').symbol)) =>
        LET t == Last(transactions')
            new == Position(currencies', t.symbol)
        IN  /\ new.currentPrice = t.price
            /\ new.value = Mul(new.amount, t.price)
            /\ new.profitLoss
                 = Sub(Mul(new.amount, t.price), Mul(new.amount, new.averageBuyPrice))
            /\ new.profitLossPercentage = Percent(t.price, new.averageBuyPrice)]_vars

(* C9: updateCurrencyPrices sets, for every held position whose symbol appears
   in the price mapping with any price >= 0 (including 0), currentPrice to the
   mapped price and recomputes value, profitLoss and profitLossPercent. *)
C9_EveryQuoteApplied ==
    \A priceData \in PriceDatas :
        LET updated == UpdateCurrencyPrices(currencies, priceData) IN
        \A i \in 1..Len(currencies) :
            currencies[i].symbol \in DOMAIN priceData =>
                /\ updated[i].currentPrice = priceData[currencies[i].symbol]
                /\ Derived(updated[i])

(* C10: updateCurrencyPrices leaves every position whose symbol is not in the
   mapping entirely unchanged, never changes the symbol, amount or averageCost
   of any position, never adds or removes a position, and ignores mapping
   entries for symbols that are not held. *)
C10_PriceUpdateFrame ==
    \A priceData \in PriceDatas :
        LET updated == UpdateCurrencyPrices(currencies, priceData) IN
        /\ Len(updated) = Len(currencies)
        /\ \A i \in 1..Len(currencies) :
              /\ updated[i].symbol = currencies[i].symbol
              /\ updated[i].name = currencies[i].name
              /\ updated[i].amount = currencies[i].amount
              /\ updated[i].averageBuyPrice = currencies[i].averageBuyPrice
              /\ currencies[i].symbol \notin DOMAIN priceData =>
                    updated[i] = currencies[i]
        /\ (\A symbol \in DOMAIN priceData : ~Held(currencies, symbol)) =>
              updated = currencies

\* of two positions one has been repriced by the feed and the other has not
C10_Witness ==
    /\ Len(currencies) = 2
    /\ \E i, j \in 1..2 :
          /\ currencies[i].currentPrice \in FeedPrices
          /\ currencies[i].profitLoss # Zero
          /\ currencies[j].currentPrice \notin FeedPrices

\* the sum of the stored value fields, from the first position on
RECURSIVE ValueSum(_)
ValueSum(cur) ==
    IF cur = <<>> THEN Zero ELSE Add(Head(cur).value, ValueSum(Tail(cur)))

\* totalInvested: the sum of amount * averageCost, from the first position on
RECURSIVE InvestedSum(_)
InvestedSum(cur) ==
    IF cur = <<>> THEN Zero
    ELSE Add(Mul(Head(cur).amount, Head(cur).averageBuyPrice), InvestedSum(Tail(cur)))

(* C11: after any sequence of buys, sells and price updates, the
   totalPortfolioValue reported for the wallet equals the sum of value over
   the positions currently in the wallet, and is 0 for an empty wallet. *)
C11_TotalValueIsSum ==
    /\ TotalPortfolioValue(currencies) = ValueSum(currencies)
    /\ currencies = <<>> => TotalPortfolioValue(currencies) = Zero

\* two positions after a sell, one of them repriced by the feed
C11_Witness ==
    /\ Len(currencies) = 2
    /\ Len(transactions) = MaxTx
    /\ Last(transactions).type = "sell"
    /\ \E i \in 1..2 : currencies[i].currentPrice \in FeedPrices
    /\ TotalPortfolioValue(currencies) # Zero

(* C12: in every reachable state totalProfitLoss, the sum of the stored
   profitLoss fields, equals totalValue - totalInvested, where totalInvested is
   the sum of amount * averageCost over the positions. *)
C12_ProfitLossIsValueLessInvested ==
    TotalProfitLoss(currencies)
        = Sub(ValueSum(currencies), InvestedSum(currencies))

\* a partial sell of a position whose price differs from its averageCost
C12_Witness ==
    /\ Len(transactions) > 0
    /\ Last(transactions).type = "sell"
    /\ Held(currencies, Last(transactions).symbol)
    /\ Position(currencies, Last(transactions).symbol).profitLoss # Zero
    /\ TotalProfitLoss(currencies) # Zero

\* a wallet whose only position was bought at price 0 and then repriced
ZeroCostWallet ==
    UpdateCurrencyPrices(AddOrUpdateCurrency(<<>>, "BTC", "Coin", Rat(1, 1), Zero),
                         [symbol \in {"BTC"} |-> Rat(2, 1)])

(* C13: totalProfitLossPercentage equals totalProfitLoss / totalInvested * 100
   when totalInvested > 0 and equals 0 otherwise, in particular for an empty
   wallet and when every held position has averageCost 0. *)
C13_TotalPercent ==
    /\ LET invested == InvestedSum(currencies) IN
       TotalProfitLossPercentage(currencies) =
          IF invested[1] > 0
          THEN Mul(Div(TotalProfitLoss(currencies), invested), Hundred)
          ELSE Zero
    /\ currencies = <<>> => TotalProfitLossPercentage(currencies) = Zero
    /\ TotalProfitLossPercentage(ZeroCostWallet) = Zero

\* a wallet with a profit or loss on a positive investment
C13_Witness ==
    /\ Len(currencies) = 2
    /\ InvestedSum(currencies)[1] > 0
    /\ TotalProfitLossPercentage(currencies) \notin {Zero, NaN}
    /\ Lt(TotalProfitLossPercentage(currencies), Zero)

\* the snapshots of a history that are not older than the given number of days
Within(history, now, days) ==
    SelectSeq(history, LAMBDA s : s.date >= now - days)

\* the dates never decrease along the sequence
Ascending(history) ==
    \A i, j \in 1..Len(history) : i < j => history[i].date <= history[j].date

\* the entries of a snapshot mirror the positions of the wallet
Mirrors(snapshot, cur) ==
    /\ Len(snapshot.currencies) = Len(cur)
    /\ \A i \in 1..Len(cur) :
          /\ snapshot.currencies[i].symbol = cur[i].symbol
          /\ snapshot.currencies[i].amount = cur[i].amount
          /\ snapshot.currencies[i].price = cur[i].currentPrice
          /\ snapshot.currencies[i].value = cur[i].value

\* the step is a call of recordPortfolioSnapshot
Recorded == portfolioHistory' # portfolioHistory

(* C14: recordPortfolioSnapshot at time now appends one snapshot holding the
   date now, the totalValue and one entry per current position, and then
   prunes: afterwards no snapshot older than now - 365 days remains, and every
   snapshot not older than that which was stored before is still stored. *)
C14_RecordAppendsThenPrunes ==
    [][Recorded =>
          /\ Len(portfolioHistory') > 0
          /\ Last(portfolioHistory').date = clock
          /\ Last(portfolioHistory').totalValue = ValueSum(currencies)
          /\ Mirrors(Last(portfolioHistory'), currencies)
          /\ \A i \in 1..Len(portfolioHistory') :
                portfolioHistory'[i].date >= clock - 365
          /\ SubSeq(portfolioHistory', 1, Len(portfolioHistory') - 1)
                = Within(portfolioHistory, clock, 365)]_vars

\* a snapshot of a wallet with positions was just recorded, and the snapshot
\* taken exactly 365 days before it is still stored
C14_Witness ==
    /\ Len(portfolioHistory) >= 2
    /\ Last(portfolioHistory).date = clock
    /\ Len(Last(portfolioHistory).currencies) = 2
    /\ portfolioHistory[1].date = clock - 365
    /\ portfolioHistory[1].date > 0

\* the day of the last call of recordPortfolioSnapshot
LastRecorded == Last(portfolioHistory).date

(* C15: the history queried for 365 days right after recordPortfolioSnapshot
   includes the snapshot just recorded; and once recordPortfolioSnapshot has
   run, no later query, whatever its days, returns a stored snapshot that was
   older than 365 days at that call. *)
C15_RecordedThenQueried ==
    [][/\ Recorded =>
             LET returned == QueryHistory(portfolioHistory', clock', ParseInt(<<3, 6, 5>>))
             IN  \E i \in 1..Len(returned) :
                    /\ returned[i] = Last(portfolioHistory')
                    /\ returned[i].date = clock'
                    /\ Mirrors(returned[i], currencies')
       /\ portfolioHistory' # <<>> =>
             \A days \in QueryDays :
                LET returned == QueryHistory(portfolioHistory', clock', days)
                IN  \A i \in 1..Len(returned) :
                       returned[i].date >= Last(portfolioHistory').date - 365]_vars

\* a query for 400 days answered with a snapshot that is older than 365 days
\* and with a later one: the next recordPortfolioSnapshot prunes the former
C15_Witness ==
    /\ res.status = 200
    /\ "data" \in DOMAIN res
    /\ "portfolioHistory" \in DOMAIN res.data
    /\ res.data.portfolioHistory = portfolioHistory
    /\ Len(portfolioHistory) = 2
    /\ portfolioHistory[1].date < clock - 365
    /\ portfolioHistory[2].date >= clock - 365
    /\ Len(portfolioHistory) < MaxSnapshots

(* C16: a history query for a number of days returns exactly the stored
   snapshots whose date is not before now - days, in ascending order of date;
   and the stored snapshots are in ascending order of date after every
   recordPortfolioSnapshot, time never running backwards. *)
C16_QueryFiltersAscending ==
    /\ Ascending(portfolioHistory)
    /\ \A days \in QueryDays \ {NaN} :
          /\ QueryHistory(portfolioHistory, clock, days)
                = Within(portfolioHistory, clock, days[1])
          /\ Ascending(QueryHistory(portfolioHistory, clock, days))

\* a query for 365 days answered with the later two of three stored snapshots
C16_Witness ==
    /\ Len(portfolioHistory) = 3
    /\ portfolioHistory[1].date < portfolioHistory[2].date
    /\ portfolioHistory[2].date < portfolioHistory[3].date
    /\ "data" \in DOMAIN res
    /\ "portfolioHistory" \in DOMAIN res.data
    /\ res.data.portfolioHistory
          = QueryHistory(portfolioHistory, clock, ParseInt(<<3, 6, 5>>))
    /\ Len(res.data.portfolioHistory) = 2

\* a /buy body the claim calls invalid: a required field missing, an amount
\* that is not positive or a price that is negative
InvalidBuyOrder(body) ==
    \/ body.symbol = "" \/ body.name = ""
    \/ NaN \in {body.amount, body.price, body.fiatAmount}
    \/ Le(body.amount, Zero)
    \/ Lt(body.price, Zero)

\* a /sell body the claim calls invalid
InvalidSellOrder(body) ==
    \/ body.symbol = ""
    \/ NaN \in {body.amount, body.price}
    \/ Le(body.amount, Zero)
    \/ Lt(body.price, Zero)

(* C17: a buy or sell request with a non-positive amount, a negative price or
   a missing required field is answered 'Validation failed' before anything is
   changed: the positions and the transaction records stay as they were. *)
C17_InvalidOrderRejected ==
    /\ \A body \in BuyBodies :
          InvalidBuyOrder(body) =>
             LET out == BuyHandler(currencies, transactions, body)
             IN  out.res = ValidationFailed /\ Untouched(out)
    /\ \A body \in SellBodies :
          InvalidSellOrder(body) =>
             LET out == SellHandler(currencies, transactions, body)
             IN  out.res = ValidationFailed /\ Untouched(out)

\* an order has just been rejected as invalid by a wallet that holds positions
\* and has transactions on record
C17_Witness ==
    /\ res = ValidationFailed
    /\ Len(currencies) = 2
    /\ Len(transactions) = MaxTx
    /\ \E body \in BuyBodies : InvalidBuyOrder(body) /\ Lt(body.price, Zero)
    /\ \E body \in SellBodies : InvalidSellOrder(body) /\ body.amount = NaN

\* the buy just accepted: the last transaction and the position it left
Applied(out, cur, body) ==
    /\ out.res = Purchased
    /\ Len(out.transactions) = Len(transactions) + 1
    /\ Last(out.transactions).type = "buy"
    /\ Last(out.transactions).amount = body.amount
    /\ Last(out.transactions).price = body.price
    /\ Held(out.currencies, ToUpperCase(body.symbol))
    /\ Position(out.currencies, ToUpperCase(body.symbol)).amount
          = IF Held(cur, ToUpperCase(body.symbol))
            THEN Add(Position(cur, ToUpperCase(body.symbol)).amount, body.amount)
            ELSE body.amount
    /\ Position(out.currencies, ToUpperCase(body.symbol)).currentPrice = body.price

HeldRead(r) == sells[r].wallet[SoldFrom(r)].amount

\* both requests have read the wallet, and read the same amount of the symbol
ReadSameAmount ==
    /\ \A r \in Requests : sells[r].pc \in {"found", "saving", "done"}
    /\ \A r \in Requests : SoldFrom(r) # 0
    /\ HeldRead(1) = HeldRead(2)

\* the sell transactions on record
SellsOnRecord == SelectSeq(transactions, LAMBDA t : t.type = "sell")

(* C19: when two sell requests on the same symbol have both read the same
   amount h of it, each asking for no more than h, both pass the balance check
   and both transactions are recorded; when both are answered as sold, the
   stored position is the one the later writer computed from h alone, its
   amount h less one of the two amounts and not h less both, or the position
   is gone because one request sold h.  An interleaving in which the amounts
   sum to more than h and both are accepted exists. *)
C19_BothPassAndLastWriteWins ==
    (/\ ReadSameAmount
     /\ \A r \in Requests : Le(sells[r].body.amount, HeldRead(r)))
    => /\ \A r \in Requests :
             /\ sells[r].res \in {NoResponse, Sold, SaleFailed}
             /\ sells[r].pc = "done" => sells[r].res # NoResponse
       /\ Len(SellsOnRecord)
             = Cardinality({r \in Requests : sells[r].pc \in {"saving", "done"}})
       /\ (\A r \in Requests : Lt(sells[r].body.amount, HeldRead(r)) /\ sells[r].pc = "done")
             => \A r \in Requests : sells[r].res = Sold
       /\ (\A r \in Requests : sells[r].res = Sold)
             => IF Held(currencies, "BTC")
                THEN \E r \in Requests :
                        Position(currencies, "BTC").amount
                           = Sub(HeldRead(r), sells[r].body.amount)
                ELSE \E r \in Requests : sells[r].body.amount = HeldRead(r)

\* both requests read the same amount, asked for more than it together, and
\* both were answered as sold; the stored amount is what the later one wrote
C19_Witness ==
    /\ ReadSameAmount
    /\ \A r \in Requests : sells[r].res = Sold
    /\ \A r \in Requests : Le(sells[r].body.amount, HeldRead(r))
    /\ Lt(HeldRead(1), Add(sells[1].body.amount, sells[2].body.amount))
    /\ Len(SellsOnRecord) = 2
    /\ Held(currencies, "BTC")
    /\ Position(currencies, "BTC").amount = Sub(HeldRead(2), sells[2].body.amount)

\* the step is an accepted order of the given type for the symbol
AcceptedFor(type, symbol) ==
    Accepted(type) /\ Last(transactions').symbol = symbol

\* the accepted sell of the step asks for all that is held of the symbol
Exhausts(symbol) ==
    /\ AcceptedFor("sell", symbol)
    /\ Last(transactions').amount = Position(currencies, symbol).amount

\* the steps of one symbol between absent and held
PositionSteps(symbol) ==
    /\ (~Held(currencies, symbol) /\ Held(currencies', symbol))
          => /\ AcceptedFor("buy", symbol)
             /\ Position(currencies', symbol).amount = Last(transactions').amount
             /\ Position(currencies', symbol).averageBuyPrice = Last(transactions').price
    /\ (Held(currencies, symbol) /\ ~Held(currencies', symbol)) => Exhausts(symbol)
    /\ (Held(currencies, symbol) /\ Exhausts(symbol)) => ~Held(currencies', symbol)
    /\ (Held(currencies, symbol) /\ ~Exhausts(symbol)) => Held(currencies', symbol)
    /\ (~Held(currencies, symbol) /\ ~AcceptedFor("buy", symbol))
          => ~Held(currencies', symbol)

\* neither state of a symbol is terminal: a buy is accepted when it is absent,
\* and a sell that lowers the amount or removes the position when it is held
NotTerminal(symbol) ==
    IF Held(currencies, symbol)
    THEN \E body \in SellBodies :
            LET out == SellHandler(currencies, transactions, body)
            IN  /\ ToUpperCase(body.symbol) = symbol
                /\ out.res = Sold
                /\ \/ ~Held(out.currencies, symbol)
                   \/ Lt(Position(out.currencies, symbol).amount,
                         Position(currencies, symbol).amount)
    ELSE \E body \in BuyBodies :
            LET out == BuyHandler(currencies, transactions, body)
            IN  /\ ToUpperCase(body.symbol) = symbol
                /\ out.res = Purchased
                /\ Held(out.currencies, symbol)

(* C20: the position of each symbol is absent or held: it becomes held only by
   an accepted buy of the symbol, and then holds the amount and the price of
   that buy alone; it becomes absent only by an accepted sell of all that is
   held; every other buy, sell or price update leaves it as it is; and neither
   state is terminal. *)
C20_AbsentHeldMachine ==
    /\ [](\A symbol \in FeedSymbols : NotTerminal(symbol))
    /\ [][\A symbol \in FeedSymbols : PositionSteps(symbol)]_vars

\* a position bought, sold in full and bought again at another price: its
\* averageBuyPrice is the price of the last buy
C20_Witness ==
    /\ Len(transactions) = 3
    /\ transactions[1].type = "buy" /\ transactions[2].type = "sell"
    /\ transactions[3].type = "buy"
    /\ \A i \in 1..3 : transactions[i].symbol = "BTC"
    /\ transactions[2].amount = transactions[1].amount
    /\ transactions[3].price # transactions[1].price
    /\ Len(currencies) = 1
    /\ currencies[1].averageBuyPrice = transactions[3].price
    /\ currencies[1].amount = transactions[3].amount

(* C21: in every state reachable by buys, sells and price updates, every
   stored position has value = amount * currentPrice and
   profitLoss = value - amount * averageCost. *)
C21_DerivedFieldsFresh ==
    \A i \in 1..Len(currencies) :
        LET c == currencies[i] IN
        /\ c.value = Mul(c.amount, c.currentPrice)
        /\ c.profitLoss = Sub(c.value, Mul(c.amount, c.averageBuyPrice))

\* two positions after a buy, a price update and a partial sell, one of them
\* with a current price that differs from its average cost
C21_Witness ==
    /\ Len(currencies) = 2
    /\ Len(transactions) = MaxTx
    /\ Last(transactions).type = "sell"
    /\ Held(currencies, Last(transactions).symbol)
    /\ \E i \in 1..2 :
          /\ currencies[i].currentPrice \in FeedPrices
          /\ currencies[i].currentPrice # currencies[i].averageBuyPrice
          /\ currencies[i].profitLoss # Zero

\* the symbols of the request bodies, in upper case
UpperCaseSymbols == {"BTC", "ETH"}

(* C22: in every state reachable by buys and sells handled one at a time, with
   symbols typed in any letter case, the wallet holds at most one position per
   symbol and every stored symbol is upper-case; a buy of a held symbol keeps
   the number of positions. *)
C22_OnePositionPerUpperCaseSymbol ==
    /\ \A i, j \in 1..Len(currencies) :
          currencies[i].symbol = currencies[j].symbol => i = j
    /\ \A i \in 1..Len(currencies) : currencies[i].symbol \in UpperCaseSymbols
    /\ \A body \in BuyBodies :
          LET out == BuyHandler(currencies, transactions, body) IN
          (/\ out.res = Purchased
           /\ body.symbol \in {"btc", "BTC"}
           /\ Held(currencies, "BTC"))
             => Len(out.currencies) = Len(currencies)

\* two buys of the first symbol merged into one position next to a position
\* of the second symbol, while buy bodies in both letter cases are at hand
C22_Witness ==
    /\ Len(transactions) = 3
    /\ \A i \in 1..3 : transactions[i].type = "buy"
    /\ Cardinality({i \in 1..3 : transactions[i].symbol = "BTC"}) = 2
    /\ Len(currencies) = 2
    /\ \E lower, upper \in BuyBodies :
          /\ lower.symbol = "btc" /\ upper.symbol = "BTC"
          /\ BuyHandler(currencies, transactions, lower).res = Purchased
          /\ Len(BuyHandler(currencies, transactions, lower).currencies) = 2

\* no stored snapshot falls inside the window of the days asked for
WindowEmpty(history, now, days) ==
    days = NaN \/ Within(history, now, days[1]) = <<>>

(* C23: the history a portfolio-history response carries is never empty; when
   no stored snapshot falls inside the requested window it holds exactly one
   point, whose totalValue is the current total value of the wallet and whose
   entries mirror the current positions. *)
C23_HistoryResponseNeverEmpty ==
    \A days \in QueryDays :
        LET returned == PortfolioHistoryHandler(currencies, portfolioHistory,
                                                clock, days).data.portfolioHistory
        IN  /\ Len(returned) > 0
            /\ WindowEmpty(portfolioHistory, clock, days)
                  => /\ Len(returned) = 1
                     /\ returned[1].totalValue = ValueSum(currencies)
                     /\ Mirrors(returned[1], currencies)

\* a request answered with the synthesized point of a wallet that holds two
\* positions and has no snapshot stored
C23_Witness ==
    /\ portfolioHistory = <<>>
    /\ clock > 0
    /\ Len(currencies) = 2
    /\ "data" \in DOMAIN res
    /\ "portfolioHistory" \in DOMAIN res.data
    /\ Len(res.data.portfolioHistory) = 1
    /\ res.data.portfolioHistory[1].date = clock
    /\ res.data.portfolioHistory[1].totalValue = ValueSum(currencies)
    /\ Mirrors(res.data.portfolioHistory[1], currencies)

\* the step is answered by one of the read requests
ReadAnswered == res' # res

(* C24: the requests that read, the wallet read with its aggregate metrics and
   the history query, leave the persisted wallet as it was: the positions, the
   transactions and the stored snapshots are the same before and after, also
   when the response carries a synthesized point. *)
C24_ReadsChangeNothing ==
    [][ReadAnswered =>
          /\ currencies' = currencies
          /\ transactions' = transactions
          /\ portfolioHistory' = portfolioHistory]_vars

\* a history request was answered with a point synthesized on a later day
\* than the only snapshot stored, and that snapshot is still the only one
C24_Witness ==
    /\ Len(portfolioHistory) = 1
    /\ portfolioHistory[1].date < clock
    /\ "data" \in DOMAIN res
    /\ "portfolioHistory" \in DOMAIN res.data
    /\ Len(res.data.portfolioHistory) = 1
    /\ res.data.portfolioHistory[1].date = clock
    /\ Len(currencies) = 2

\* the order just accepted is recorded with its notional and 1% of it
NotionalRecorded ==
    LET t == Last(transactions') IN
    /\ t.fiat = Mul(t.amount, t.price)
    /\ t.fees = Div(Mul(t.amount, t.price), Hundred)

(* C25: for every accepted buy or sell, the fiat amount of the recorded
   transaction equals amount * price of the order and its fee equals 1% of
   that notional. *)
C25_FiatIsNotional ==
    [][(Accepted("buy") \/ Accepted("sell")) => NotionalRecorded]_vars

\* the requests whose transaction is on record by right: those still between
\* the two saves and those answered as sold
Recording == {r \in Requests : sells[r].pc = "saving" \/ sells[r].res = Sold}

(* C26: a buy or sell is all-or-nothing across the transaction log and the
   wallet: a request answered with an error has persisted neither a
   transaction nor a position change, so every transaction on record belongs
   to a request that is answered as accepted or is still being saved. *)
C26_AllOrNothing ==
    Len(SellsOnRecord) = Cardinality(Recording)

----------------------------------------------------------------------------
(* C27: wallet data is cleared when the user logs out: once isAuthenticated
   is false and the response of every request in flight has been delivered,
   the wallet context is in its initial state (wallet null, no transactions,
   no history), whatever the order of the logout and of the responses of the
   wallet requests started while authenticated. *)
C27_ClearedAfterLogout ==
    (~client.auth.isAuthenticated /\ client.pending = {})
        => client.wallet = WalletInitialState

(* C28: in every reachable state of the auth context, isAuthenticated is true
   if and only if user is non-null and token is non-null, whatever the order
   of the initializeAuth, login, register, logout and updateProfile requests
   and of their responses. *)
C28_AuthenticatedIffUserAndToken ==
    client.auth.isAuthenticated
        <=> (client.auth.user # Null /\ client.auth.token # Null)

\* the response of updateProfile has arrived after the logout
C28_Witness ==
    /\ ~client.auth.isAuthenticated
    /\ client.auth.user \in UpdatedUsers
    /\ client.auth.token = Null
    /\ client.pending = {}

\* the positions of the other symbols, in the order of the ledger
OtherPositions(cur, symbol) == SelectSeq(cur, LAMBDA c : c.symbol # symbol)

(* C29: an accepted buy or sell on symbol S changes only the position for S:
   every position for another symbol keeps all of its fields and the other
   positions stay in the same relative order, also when the sell removes S. *)
C29_OnlyTradedPositionChanges ==
    [][\A symbol \in UpperCaseSymbols :
          (AcceptedFor("buy", symbol) \/ AcceptedFor("sell", symbol))
              => OtherPositions(currencies', symbol)
                     = OtherPositions(currencies, symbol)]_vars

\* the last order sold all of BTC, bought before ETH, and ETH is still held
C29_Witness ==
    /\ Len(transactions) = MaxTx
    /\ transactions[1].symbol = "BTC" /\ transactions[1].type = "buy"
    /\ transactions[2].symbol = "ETH" /\ transactions[2].type = "buy"
    /\ transactions[3].symbol = "BTC" /\ transactions[3].type = "sell"
    /\ res = Sold
    /\ ~Held(currencies, "BTC")
    /\ Held(currencies, "ETH")

\* every registration request received has been answered
RegistrationsFinished ==
    \A r \in Registrations : accounts.registrations[r].pc \in {"idle", "done"}

(* C30: after any sequence of registration requests, including ones that fail
   part-way, every persisted user has exactly one persisted wallet (the one
   Wallet.findOne({user}) of a wallet request finds, so that the request does
   not answer 'Wallet not found'). *)
C30_EveryUserHasAWallet ==
    RegistrationsFinished
        => \A email \in accounts.users : email \in accounts.wallets

====
